---- MODULE Spec2Model ----
(***************************************************************************)
(* The notebook kde-1d.ipynb (Python 2.7, sklearn 0.18.1, plotly) as a     *)
(* state machine: the kernel's namespace, numpy's global random state, the *)
(* execution counter and the charts rendered by py.iplot.  Each code cell  *)
(* is executed statement by statement.  Arrays are carried symbolically:   *)
(* an array is a record of its shape and of the expression that made it.   *)
(***************************************************************************)
EXTENDS Integers, Sequences, FiniteSets, TLC

\* ------------------------------------------------------------------ bounds
\* number of cell executions allowed in an interactive session
MaxRuns == 4
\* the fresh kernel's random state is seeded from entropy: one of 0..MaxEntropy
MaxEntropy == 1

\* ------------------------------------------------- IEEE-754 double products
\* A (positive) double is mant * 2^(-scale); mant is held as little-endian
\* limbs of LimbBits bits and has at most 53 significant bits (54 only right
\* after a rounding carry).
LimbBits == 11

RECURSIVE Pow2(_)
Pow2(k) == IF k = 0 THEN 1 ELSE 2 * Pow2(k - 1)

LimbBase == Pow2(LimbBits)

RECURSIVE Repeat(_, _)
Repeat(s, k) == IF k = 0 THEN <<>> ELSE s \o Repeat(s, k - 1)

Reverse(s) == [i \in 1..Len(s) |-> s[Len(s) + 1 - i]]

\* the value of bits k+1 .. k+w of a little-endian bit sequence
RECURSIVE BitField(_, _, _)
BitField(bits, k, w) ==
    IF w = 0 THEN 0
    ELSE (IF k + 1 <= Len(bits) THEN bits[k + 1] ELSE 0) + 2 * BitField(bits, k + 1, w - 1)

\* the limbs of a little-endian bit sequence
Pack(bits) ==
    [i \in 1..((Len(bits) + LimbBits - 1) \div LimbBits) |->
        BitField(bits, (i - 1) * LimbBits, LimbBits)]

Nibble3 == <<0, 0, 1, 1>>
Nibble6 == <<0, 1, 1, 0>>

\* the literal 0.3 is the double 0x1.3333333333333p-2
Dbl03 == [mant |-> Pack(Reverse(<<1>> \o Repeat(Nibble3, 13))), scale |-> 54]
\* the literal 0.7 is the double 0x1.6666666666666p-1
Dbl07 == [mant |-> Pack(Reverse(<<1>> \o Repeat(Nibble6, 13))), scale |-> 53]

RECURSIVE BitLen(_)
BitLen(x) == IF x = 0 THEN 0 ELSE 1 + BitLen(x \div 2)

RECURSIVE NatLimbs(_)
NatLimbs(c) == IF c = 0 THEN <<>> ELSE <<c % LimbBase>> \o NatLimbs(c \div LimbBase)

RECURSIVE LimbsNat(_)
LimbsNat(l) == IF l = <<>> THEN 0 ELSE Head(l) + LimbBase * LimbsNat(Tail(l))

\* the number of significant bits of a limb sequence whose top limb is not 0
Width(l) == IF l = <<>> THEN 0 ELSE LimbBits * (Len(l) - 1) + BitLen(l[Len(l)])

\* bit k (from 0) of a limb sequence
Bit(l, k) == (l[(k \div LimbBits) + 1] \div Pow2(k % LimbBits)) % 2

\* l * n + carry
RECURSIVE MulLimbs(_, _, _)
MulLimbs(l, n, carry) ==
    IF l = <<>> THEN NatLimbs(carry)
    ELSE <<(Head(l) * n + carry) % LimbBase>>
             \o MulLimbs(Tail(l), n, (Head(l) * n + carry) \div LimbBase)

\* l + 1
RECURSIVE IncLimbs(_)
IncLimbs(l) ==
    IF l = <<>> THEN <<1>>
    ELSE IF Head(l) + 1 < LimbBase THEN <<Head(l) + 1>> \o Tail(l)
    ELSE <<0>> \o IncLimbs(Tail(l))

\* l with its d lowest bits dropped, for 0 <= d < Width(l)
ShiftRight(l, d) ==
    LET q == d \div LimbBits
        r == d % LimbBits
        n == ((Width(l) - d) + LimbBits - 1) \div LimbBits
    IN  [i \in 1..n |->
            (l[i + q] \div Pow2(r))
            + (IF i + q + 1 <= Len(l) THEN (l[i + q + 1] % Pow2(r)) * Pow2(LimbBits - r)
               ELSE 0)]

\* the exact product kept with all its bits: no rounding to a double
ExactProduct(p, scale) == [mant |-> p, scale |-> scale]

\* round an exact product p * 2^(-scale) to 53 significant bits, ties to even
RoundToDouble(p, scale) ==
    IF Width(p) <= 53 THEN [mant |-> p, scale |-> scale]
    ELSE LET d      == Width(p) - 53
             kept   == ShiftRight(p, d)
             guard  == Bit(p, d - 1)
             sticky == \E k \in 0..(d - 2) : Bit(p, k) = 1
             up     == guard = 1 /\ (sticky \/ kept[1] % 2 = 1)
         IN  [mant |-> IF up THEN IncLimbs(kept) ELSE kept, scale |-> scale - d]

\* the float product  d * n  for an int n >= 1 (n converts to double exactly)
FloatMulInt(d, n) == RoundToDouble(MulLimbs(d.mant, n, 0), d.scale)

\* numpy's conversion of a float size to an integer count: truncation
TruncToInt(d) ==
    IF d.scale <= 0 THEN LimbsNat(d.mant) * Pow2(0 - d.scale)
    ELSE IF d.scale >= Width(d.mant) THEN 0
    ELSE LimbsNat(ShiftRight(d.mant, d.scale))

\* ------------------------------------------------------------- str, format
DigitChar(d) == <<"0", "1", "2", "3", "4", "5", "6", "7", "8", "9">>[d + 1]

\* the digits of n, lowest first
RECURSIVE DecStrReversed(_)
DecStrReversed(n) == IF n < 10 THEN DigitChar(n)
                     ELSE DigitChar(n % 10) \o DecStrReversed(n \div 10)

\* str(n) / "{0}".format(n) for an int n >= 0
RECURSIVE DecStr(_)
DecStr(n) == IF n < 10 THEN DigitChar(n)
             ELSE DecStr(n \div 10) \o DigitChar(n % 10)

\* range(start, stop, step) for step > 0, as a list
RECURSIVE Range(_, _, _)
Range(start, stop, step) ==
    IF start >= stop THEN <<>> ELSE <<start>> \o Range(start + step, stop, step)

\* map(f, list) with f = str
MapStr(l) == [k \in 1..Len(l) |-> DecStr(l[k])]

\* ------------------------------------------------------------ numpy arrays
\* An array is its shape and the expression that produced it.
NoArray == [shape |-> <<>>, src |-> [op |-> "none"]]

\* np.linspace(lo, hi, num)
Linspace(lo, hi, num) ==
    [shape |-> <<num>>, src |-> [op |-> "linspace", lo |-> lo, hi |-> hi, num |-> num]]

\* a[:, np.newaxis]  and  a[:, None]
NewAxis(a) == [shape |-> a.shape \o <<1>>, src |-> [op |-> "newaxis", of |-> a]]

\* a[:, 0]
Col0(a) == [shape |-> <<a.shape[1]>>, src |-> [op |-> "col0", of |-> a]]

\* np.zeros((r, c))
Zeros(r, c) == [shape |-> <<r, c>>, src |-> [op |-> "zeros"]]

\* np.concatenate((a, b)) of two 1-d arrays
Concatenate(a, b) ==
    [shape |-> <<a.shape[1] + b.shape[1]>>, src |-> [op |-> "concatenate", a |-> a, b |-> b]]

\* np.exp(a)
Exp(a) == [shape |-> a.shape, src |-> [op |-> "exp", of |-> a]]

\* The global random state: the seed and the draws made since it was set.
\* np.random.seed(s)
Seeded(s) == [seed |-> s, calls |-> <<>>]

\* the values N takes in the notebook
SampleSizes == {20, 100}

\* np.random.normal(loc, 1, size) where size is the float d * N: the count is
\* the float truncated to an int (VisibleDeprecationWarning in the cell output)
NormalCount(d, n) == TruncToInt(FloatMulInt(d, n))

\* the counts 0.3 * N and 0.7 * N give, for each N
Counts03 == [n \in SampleSizes |-> NormalCount(Dbl03, n)]

Counts07 == [n \in SampleSizes |-> NormalCount(Dbl07, n)]

RandomNormal(r, loc, count) ==
    [shape |-> <<count>>, src |-> [op |-> "normal", loc |-> loc, rng |-> r]]

AfterNormal(r, count) == [r EXCEPT !.calls = Append(@, <<"normal", count>>)]

\* np.random.random(n)
RandomRandom(r, n) == [shape |-> <<n>>, src |-> [op |-> "random", rng |-> r]]

AfterRandom(r, n) == [r EXCEPT !.calls = Append(@, <<"random", n>>)]

\* -0.005 - 0.01 * a
Jitter(a) == [shape |-> a.shape, src |-> [op |-> "jitter", of |-> a]]

\* norm(loc, 1).pdf(x)
NormPdf(loc, x) == [shape |-> x.shape, src |-> [op |-> "normpdf", loc |-> loc, of |-> x]]

\* 0.3 * a + 0.7 * b
Mixture(a, b) == [shape |-> a.shape, src |-> [op |-> "mixture", a |-> a, b |-> b]]

\* ----------------------------------------------------------------- sklearn
NoKde == [kernel |-> "", bandwidth |-> "", fitted |-> NoArray]

\* KernelDensity(kernel=kernel, bandwidth=bandwidth).fit(X)
KernelDensityFit(kernel, bandwidth, X) ==
    [kernel |-> kernel, bandwidth |-> bandwidth, fitted |-> X]

\* kde.score_samples(Q): one log-density per row of Q
ScoreSamples(kde, Q) ==
    [shape |-> <<Q.shape[1]>>, src |-> [op |-> "score_samples", kde |-> kde, of |-> Q]]

\* ------------------------------------------------------------------ plotly
NoTrace == [type |-> "", x |-> NoArray, y |-> NoArray, mode |-> "", fill |-> "",
            name |-> "", nbinsy |-> 0, showlegend |-> TRUE,
            xaxis |-> "", yaxis |-> "", gridRun |-> 0]

\* go.Scatter(x=x, y=y, mode=mode, fill=fill, name=name, showlegend=showlegend);
\* gridRun records the execution that bound the X_plot used (0: none used)
Scatter(x, y, mode, fill, name, showlegend, gridRun) ==
    [NoTrace EXCEPT !.type = "scatter", !.x = x, !.y = y, !.mode = mode,
                    !.fill = fill, !.name = name, !.showlegend = showlegend,
                    !.gridRun = gridRun]

\* go.Histogram(x=x, nbinsy=nbinsy)
Histogram(x, nbinsy) == [NoTrace EXCEPT !.type = "histogram", !.x = x, !.nbinsy = nbinsy]

NoLayout == [annotations |-> <<>>, hovermode |-> "", height |-> 0,
             showlegend |-> TRUE, title |-> "", zeroline |-> TRUE]

NoFig == [rows |-> 0, cols |-> 0, titles |-> <<>>, data |-> <<>>,
          yaxis |-> [a \in {} |-> ""], layout |-> NoLayout, builtRun |-> 0]

\* tools.make_subplots(rows, cols, subplot_titles): a rows x cols grid whose
\* cell k (row-major, from the top left) owns the axes xk / yk and the k-th title
MakeSubplots(rows, cols, titles, run) ==
    [NoFig EXCEPT !.rows = rows, !.cols = cols, !.titles = titles,
                  !.yaxis = [a \in {"yaxis" \o DecStr(k) : k \in 1..(rows * cols)} |-> ""],
                  !.builtRun = run]

\* the index of the axes of grid cell (row, col)
GridRef(fig, row, col) == (row - 1) * fig.cols + col

InGrid(fig, row, col) == row \in 1..fig.rows /\ col \in 1..fig.cols

\* fig.append_trace(trace, row, col), for (row, col) inside the grid
AppendTrace(fig, trace, row, col) ==
    [fig EXCEPT !.data = Append(@, [trace EXCEPT
        !.xaxis = "x" \o DecStr(GridRef(fig, row, col)),
        !.yaxis = "y" \o DecStr(GridRef(fig, row, col))])]

\* fig['layout'][y].update(title=title)
UpdateAxisTitle(fig, y, title) == [fig EXCEPT !.yaxis[y] = title]

\* go.Figure(data=data, layout=layout)
Figure(data, layout, run) == [NoFig EXCEPT !.data = data, !.layout = layout, !.builtRun = run]

\* ------------------------------------------------------- program constants
SubplotTitles1 == <<"Histogram", "Histogram, bins shifted",
                    "Tophat Kernel Density", "Gaussian Kernel Density">>

\* the titles with 'linear' given twice and 'cosine' left out
SubplotTitles2Dup == <<"gaussian", "tophat", "epanechnikov",
                       "exponential", "linear", "linear">>

SubplotTitles2 == <<"gaussian", "tophat", "epanechnikov",
                    "exponential", "linear", "cosine">>

\* the gallery's kernel list without its last kernel
GalleryKernelsShort == <<"gaussian", "tophat", "epanechnikov", "exponential", "linear">>

GalleryKernels == <<"gaussian", "tophat", "epanechnikov",
                    "exponential", "linear", "cosine">>

DensityKernels == <<"gaussian", "tophat", "epanechnikov">>

\* the two KDE blocks of cell 3, in order, and the grid cell each is appended to
Kernels1 == <<"tophat", "gaussian">>

\* the two curves appended to each other's cell
KdeCell1Swapped(kernel) == IF kernel = "tophat" THEN <<2, 2>> ELSE <<2, 1>>

KdeCell1(kernel) == IF kernel = "tophat" THEN <<2, 1>> ELSE <<2, 2>>

\* enumerate(l): pairs (index from 0, item)
Enumerate(l) == [k \in 1..Len(l) |-> <<k - 1, l[k]>>]

\* the row taken by dividing by the number of rows instead of columns
GalleryRowByRows(i) == (i \div 2) + 1

\* fig.append_trace(trace, i/3+1, i%3+1): Python 2 integer division
GalleryRow(i) == (i \div 3) + 1

GalleryCol(i) == (i % 3) + 1

\* "N={0} points".format(n)
AnnotationText(n) == "N=" \o DecStr(n) \o " points"

\* "kernel = '{0}'".format(kernel)
KernelLegend(kernel) == "kernel = '" \o kernel \o "'"

\* ------------------------------------------------------------------- state
VARIABLES
    pc,       \* the statement the kernel is at: [cell, at]; cell 0 when idle
    ns,       \* the kernel's namespace (values of the notebook's globals)
    boundAt,  \* name -> execution count that last bound it, 0 when unbound
    iter,     \* the items left in the running for loop
    rng,      \* numpy's global random state
    charts,   \* the figures rendered by py.iplot, in order
    log,      \* per execution count: the cell run and how it ended
    loops     \* per cell: loop bodies entered in its latest run

vars == <<pc, ns, boundAt, iter, rng, charts, log, loops>>

Names == {"sklearn", "py", "go", "tools", "np", "norm", "KernelDensity",
          "N", "X", "X_plot", "X_src", "bins", "fig", "kde", "log_dens",
          "i", "y", "format_func", "kernel", "trace", "data", "true_dens",
          "trace1", "trace2", "trace3", "layout", "display", "HTML", "publisher"}

\* the code cells, in document order
Cells == 1..8

Idle == [cell |-> 0, at |-> "idle"]

Bound == {n \in Names : boundAt[n] > 0}

\* the execution count of the running cell (In[n])
Run == Len(log)

\* the first statement of each cell
First(c) == CASE c = 1 -> "import"
              [] c = 2 -> "py"
              [] c = 3 -> "seed"
              [] c = 4 -> "X_plot"
              [] c = 5 -> "iplot"
              [] c = 6 -> "N"
              [] c = 7 -> "iplot"
              [] c = 8 -> "import_display"

\* the global names each statement reads (a read of an unbound one raises NameError)
Uses1(at) == CASE at = "version" -> {"sklearn"}
               [] OTHER -> {}

Uses3(at) == CASE at = "seed" -> {"np"}
               [] at = "X" -> {"np", "N"}
               [] at = "X_plot" -> {"np"}
               [] at = "fig" -> {"tools"}
               [] at \in {"hist1", "hist2"} -> {"fig", "go", "X", "bins"}
               [] at \in {"kde_tophat", "kde_gaussian"} -> {"KernelDensity", "X"}
               [] at \in {"score_tophat", "score_gaussian"} -> {"kde", "X_plot"}
               [] at \in {"append_tophat", "append_gaussian"} ->
                      {"fig", "go", "X_plot", "np", "log_dens"}
               [] at = "y" -> {"i"}
               [] at = "update" -> {"fig", "y"}
               [] at = "layout" -> {"fig"}
               [] at = "iplot" -> {"py", "fig"}
               [] OTHER -> {}

Uses4(at) == CASE at \in {"X_plot", "X_src"} -> {"np"}
               [] at = "fig" -> {"tools"}
               [] at = "log_dens" -> {"KernelDensity", "kernel", "X_src", "X_plot"}
               [] at = "trace" -> {"go", "X_plot", "np", "log_dens"}
               [] at = "append" -> {"fig", "trace", "i"}
               [] at = "layout" -> {"fig"}
               [] OTHER -> {}

Uses6(at) == CASE at = "seed" -> {"np"}
               [] at = "X" -> {"np", "N"}
               [] at = "X_plot" -> {"np"}
               [] at = "true_dens" -> {"norm", "X_plot"}
               [] at = "trace1" -> {"go", "X_plot", "true_dens"}
               [] at = "append1" -> {"data", "trace1"}
               [] at = "kde" -> {"KernelDensity", "kernel", "X"}
               [] at = "log_dens" -> {"kde", "X_plot"}
               [] at = "trace2" -> {"go", "X_plot", "np", "log_dens", "kernel"}
               [] at = "append2" -> {"data", "trace2"}
               [] at = "trace3" -> {"go", "X", "np"}
               [] at = "append3" -> {"data", "trace3"}
               [] at = "layout" -> {"go", "N"}
               [] at = "fig" -> {"go", "data", "layout"}
               [] OTHER -> {}

Uses8(at) == CASE at \in {"display1", "display2"} -> {"display", "HTML"}
               [] at = "publish" -> {"publisher"}
               [] OTHER -> {}

Uses(c, at) == CASE c = 1 -> Uses1(at)
                 [] c = 3 -> Uses3(at)
                 [] c = 4 -> Uses4(at)
                 [] c \in {5, 7} -> {"py", "fig"}
                 [] c = 6 -> Uses6(at)
                 [] c = 8 -> Uses8(at)
                 [] OTHER -> {}

\* the kernel is at statement `at` of cell c and every name it reads is bound
At(c, at) == pc = [cell |-> c, at |-> at] /\ Uses(c, at) \subseteq Bound

Goto(next) == pc' = [pc EXCEPT !.at = next] /\ UNCHANGED log

\* the last statement of a cell returns the kernel to idle
Finish == pc' = Idle /\ log' = [log EXCEPT ![Run].status = "ok"]

\* the statement binds the names in S
Binds(S) == boundAt' = [n \in Names |-> IF n \in S THEN Run ELSE boundAt[n]]

Init ==
    /\ pc = Idle
    /\ ns = [N |-> 0, X |-> NoArray, X_plot |-> NoArray, X_src |-> NoArray,
             bins |-> 0, fig |-> NoFig, kde |-> NoKde, log_dens |-> NoArray,
             i |-> 0, y |-> "", kernel |-> "", trace |-> NoTrace, data |-> <<>>,
             true_dens |-> NoArray, trace1 |-> NoTrace, trace2 |-> NoTrace,
             trace3 |-> NoTrace, layout |-> NoLayout]
    /\ boundAt = [n \in Names |-> 0]
    /\ iter = <<>>
    /\ rng \in {Seeded(e) : e \in 0..MaxEntropy}
    /\ charts = <<>>
    /\ log = <<>>
    /\ loops = [c \in {3, 4, 6} |-> 0]

\* -------------------------------------------------------- running the cells
Begin(c) ==
    /\ pc = Idle
    /\ pc' = [cell |-> c, at |-> First(c)]
    /\ log' = Append(log, [cell |-> c, status |-> "running"])
    /\ loops' = [k \in {3, 4, 6} |-> IF k = c THEN 0 ELSE loops[k]]
    /\ UNCHANGED <<ns, boundAt, iter, rng, charts>>

\* the user runs any cell of the notebook
RunCell == \E c \in Cells : Run < MaxRuns /\ Begin(c)

\* the cells are run top to bottom, once each, on a fresh kernel
RunNextCell == Run < 8 /\ Begin(Run + 1)

\* the statement the kernel is at raises: it reads an unbound name (NameError),
\* appends outside the subplot grid, or indexes a y-axis the layout lacks
Fails ==
    \/ ~(Uses(pc.cell, pc.at) \subseteq Bound)
    \/ /\ pc = [cell |-> 4, at |-> "append"]
       /\ ~InGrid(ns.fig, GalleryRow(ns.i), GalleryCol(ns.i))
    \/ /\ pc.cell = 3
       /\ \E k \in 1..Len(Kernels1) :
              /\ pc.at = "append_" \o Kernels1[k]
              /\ ~InGrid(ns.fig, KdeCell1(Kernels1[k])[1], KdeCell1(Kernels1[k])[2])
    \/ /\ pc = [cell |-> 3, at |-> "update"]
       /\ ns.y \notin DOMAIN ns.fig.yaxis

\* an exception ends the cell
Raise ==
    /\ pc.cell # 0
    /\ Fails
    /\ pc' = Idle
    /\ log' = [log EXCEPT ![Run].status = "error"]
    /\ UNCHANGED <<ns, boundAt, iter, rng, charts, loops>>

\* ------------------------------------------------ cell 1 (Version), cell 2
C1_Import ==
    /\ At(1, "import")
    /\ Binds({"sklearn"})
    /\ Goto("version")
    /\ UNCHANGED <<ns, iter, rng, charts, loops>>

C1_Version ==
    /\ At(1, "version")
    /\ Finish
    /\ UNCHANGED <<ns, boundAt, iter, rng, charts, loops>>

\* the names bound by the six import statements, in order
Imports == <<"py", "go", "tools", "np", "norm", "KernelDensity">>

C2_Import ==
    \E k \in 1..Len(Imports) :
        /\ At(2, Imports[k])
        /\ Binds({Imports[k]})
        /\ IF k = Len(Imports) THEN Finish ELSE Goto(Imports[k + 1])
        /\ UNCHANGED <<ns, iter, rng, charts, loops>>

\* ------------------------- cell 3: the progression of histograms to kernels
\* np.concatenate((np.random.normal(0, 1, 0.3 * N),
\*                 np.random.normal(5, 1, 0.7 * N)))[:, np.newaxis]
SampleMixture(r, n) ==
    NewAxis(Concatenate(RandomNormal(r, 0, Counts03[n]),
                        RandomNormal(AfterNormal(r, Counts03[n]), 5, Counts07[n])))

AfterMixture(r, n) == AfterNormal(AfterNormal(r, Counts03[n]), Counts07[n])

\* cell 3 without its np.random.seed(1)
C3_NoSeed ==
    /\ At(3, "seed")
    /\ Goto("N")
    /\ UNCHANGED <<ns, boundAt, iter, rng, charts, loops>>

C3_Seed ==
    /\ At(3, "seed")
    /\ rng' = Seeded(1)
    /\ Goto("N")
    /\ UNCHANGED <<ns, boundAt, iter, charts, loops>>

C3_N ==
    /\ At(3, "N")
    /\ ns' = [ns EXCEPT !.N = 20]
    /\ Binds({"N"})
    /\ Goto("X")
    /\ UNCHANGED <<iter, rng, charts, loops>>

C3_X ==
    /\ At(3, "X")
    /\ ns' = [ns EXCEPT !.X = SampleMixture(rng, ns.N)]
    /\ rng' = AfterMixture(rng, ns.N)
    /\ Binds({"X"})
    /\ Goto("X_plot")
    /\ UNCHANGED <<iter, charts, loops>>

C3_XPlot ==
    /\ At(3, "X_plot")
    /\ ns' = [ns EXCEPT !.X_plot = NewAxis(Linspace(-5, 10, 1000))]
    /\ Binds({"X_plot"})
    /\ Goto("bins")
    /\ UNCHANGED <<iter, rng, charts, loops>>

C3_Bins ==
    /\ At(3, "bins")
    /\ ns' = [ns EXCEPT !.bins = 10]
    /\ Binds({"bins"})
    /\ Goto("fig")
    /\ UNCHANGED <<iter, rng, charts, loops>>

C3_Fig ==
    /\ At(3, "fig")
    /\ ns' = [ns EXCEPT !.fig = MakeSubplots(2, 2, SubplotTitles1, Run)]
    /\ Binds({"fig"})
    /\ Goto("hist1")
    /\ UNCHANGED <<iter, rng, charts, loops>>

C3_Hist1 ==
    /\ At(3, "hist1")
    /\ InGrid(ns.fig, 1, 1)
    /\ ns' = [ns EXCEPT !.fig = AppendTrace(@, Histogram(Col0(ns.X), ns.bins), 1, 1)]
    /\ Goto("hist2")
    /\ UNCHANGED <<boundAt, iter, rng, charts, loops>>

C3_Hist2 ==
    /\ At(3, "hist2")
    /\ InGrid(ns.fig, 1, 2)
    /\ ns' = [ns EXCEPT !.fig = AppendTrace(@, Histogram(Col0(ns.X), ns.bins + 20), 1, 2)]
    /\ Goto("kde_tophat")
    /\ UNCHANGED <<boundAt, iter, rng, charts, loops>>

C3_Kde ==
    \E k \in 1..Len(Kernels1) :
        /\ At(3, "kde_" \o Kernels1[k])
        /\ ns' = [ns EXCEPT !.kde = KernelDensityFit(Kernels1[k], "0.75", ns.X)]
        /\ Binds({"kde"})
        /\ Goto("score_" \o Kernels1[k])
        /\ UNCHANGED <<iter, rng, charts, loops>>

C3_Score ==
    \E k \in 1..Len(Kernels1) :
        /\ At(3, "score_" \o Kernels1[k])
        /\ ns' = [ns EXCEPT !.log_dens = ScoreSamples(ns.kde, ns.X_plot)]
        /\ Binds({"log_dens"})
        /\ Goto("append_" \o Kernels1[k])
        /\ UNCHANGED <<iter, rng, charts, loops>>

C3_Append ==
    \E k \in 1..Len(Kernels1) :
        LET cell == KdeCell1(Kernels1[k])
            trace == Scatter(Col0(ns.X_plot), Exp(ns.log_dens), "lines", "tozeroy",
                             "", TRUE, boundAt["X_plot"])
        IN  /\ At(3, "append_" \o Kernels1[k])
            /\ InGrid(ns.fig, cell[1], cell[2])
            /\ ns' = [ns EXCEPT !.fig = AppendTrace(@, trace, cell[1], cell[2])]
            /\ Goto(IF k < Len(Kernels1) THEN "kde_" \o Kernels1[k + 1] ELSE "for")
            /\ UNCHANGED <<boundAt, iter, rng, charts, loops>>

\* the loop over every axis: range(1, 5)
YAxisRangeAll == Range(1, 5, 1)

\* range(1, 5, 2)
YAxisRange == Range(1, 5, 2)

C3_For ==
    /\ At(3, "for")
    /\ iter' = MapStr(YAxisRange)
    /\ Goto("next")
    /\ UNCHANGED <<ns, boundAt, rng, charts, loops>>

C3_Next ==
    /\ At(3, "next")
    /\ IF iter = <<>>
       THEN Goto("layout") /\ UNCHANGED <<ns, boundAt, iter, loops>>
       ELSE /\ ns' = [ns EXCEPT !.i = Head(iter)]
            /\ iter' = Tail(iter)
            /\ Binds({"i"})
            /\ loops' = [loops EXCEPT ![3] = @ + 1]
            /\ Goto("y")
    /\ UNCHANGED <<rng, charts>>

C3_Y ==
    /\ At(3, "y")
    /\ ns' = [ns EXCEPT !.y = "yaxis" \o ns.i]
    /\ Binds({"y"})
    /\ Goto("update")
    /\ UNCHANGED <<iter, rng, charts, loops>>

C3_Update ==
    /\ At(3, "update")
    /\ ns.y \in DOMAIN ns.fig.yaxis
    /\ ns' = [ns EXCEPT !.fig = UpdateAxisTitle(@, ns.y, "Normalized Density")]
    /\ Goto("next")
    /\ UNCHANGED <<boundAt, iter, rng, charts, loops>>

C3_Layout ==
    /\ At(3, "layout")
    /\ ns' = [ns EXCEPT !.fig.layout.hovermode = "closest",
                        !.fig.layout.height = 600,
                        !.fig.layout.showlegend = FALSE]
    /\ Goto("iplot")
    /\ UNCHANGED <<boundAt, iter, rng, charts, loops>>

\* py.iplot(fig): the last statement of cells 3, 5 and 7
Iplot ==
    \E c \in {3, 5, 7} :
        /\ At(c, "iplot")
        /\ charts' = Append(charts, [fig |-> ns.fig, run |-> Run])
        /\ Finish
        /\ UNCHANGED <<ns, boundAt, iter, rng, loops>>

\* ------------------------------------------ cell 4: all available kernels
C4_XPlot ==
    /\ At(4, "X_plot")
    /\ ns' = [ns EXCEPT !.X_plot = NewAxis(Linspace(-6, 6, 1000))]
    /\ Binds({"X_plot"})
    /\ Goto("X_src")
    /\ UNCHANGED <<iter, rng, charts, loops>>

C4_XSrc ==
    /\ At(4, "X_src")
    /\ ns' = [ns EXCEPT !.X_src = Zeros(1, 1)]
    /\ Binds({"X_src"})
    /\ Goto("fig")
    /\ UNCHANGED <<iter, rng, charts, loops>>

C4_Fig ==
    /\ At(4, "fig")
    /\ ns' = [ns EXCEPT !.fig = MakeSubplots(2, 3, SubplotTitles2, Run)]
    /\ Binds({"fig"})
    /\ Goto("def")
    /\ UNCHANGED <<iter, rng, charts, loops>>

\* def format_func(x, loc): bound, never called
C4_Def ==
    /\ At(4, "def")
    /\ Binds({"format_func"})
    /\ Goto("for")
    /\ UNCHANGED <<ns, iter, rng, charts, loops>>

C4_For ==
    /\ At(4, "for")
    /\ iter' = Enumerate(GalleryKernels)
    /\ Goto("next")
    /\ UNCHANGED <<ns, boundAt, rng, charts, loops>>

C4_Next ==
    /\ At(4, "next")
    /\ IF iter = <<>>
       THEN Goto("layout") /\ UNCHANGED <<ns, boundAt, iter, loops>>
       ELSE /\ ns' = [ns EXCEPT !.i = Head(iter)[1], !.kernel = Head(iter)[2]]
            /\ iter' = Tail(iter)
            /\ Binds({"i", "kernel"})
            /\ loops' = [loops EXCEPT ![4] = @ + 1]
            /\ Goto("log_dens")
    /\ UNCHANGED <<rng, charts>>

\* KernelDensity(kernel=kernel).fit(X_src).score_samples(X_plot): bandwidth 1.0
C4_LogDens ==
    /\ At(4, "log_dens")
    /\ ns' = [ns EXCEPT !.log_dens =
                 ScoreSamples(KernelDensityFit(ns.kernel, "1.0", ns.X_src), ns.X_plot)]
    /\ Binds({"log_dens"})
    /\ Goto("trace")
    /\ UNCHANGED <<iter, rng, charts, loops>>

C4_Trace ==
    /\ At(4, "trace")
    /\ ns' = [ns EXCEPT !.trace = Scatter(Col0(ns.X_plot), Exp(ns.log_dens), "lines",
                                          "tozeroy", "", TRUE, boundAt["X_plot"])]
    /\ Binds({"trace"})
    /\ Goto("append")
    /\ UNCHANGED <<iter, rng, charts, loops>>

C4_Append ==
    /\ At(4, "append")
    /\ InGrid(ns.fig, GalleryRow(ns.i), GalleryCol(ns.i))
    /\ ns' = [ns EXCEPT !.fig = AppendTrace(@, ns.trace, GalleryRow(ns.i), GalleryCol(ns.i))]
    /\ Goto("next")
    /\ UNCHANGED <<boundAt, iter, rng, charts, loops>>

C4_Layout ==
    /\ At(4, "layout")
    /\ ns' = [ns EXCEPT !.fig.layout.hovermode = "closest",
                        !.fig.layout.showlegend = FALSE,
                        !.fig.layout.height = 600,
                        !.fig.layout.title = "Available Kernels"]
    /\ Finish
    /\ UNCHANGED <<boundAt, iter, rng, charts, loops>>

\* --------------------------------------------- cell 6: a 1D density example
C6_N ==
    /\ At(6, "N")
    /\ ns' = [ns EXCEPT !.N = 100]
    /\ Binds({"N"})
    /\ Goto("seed")
    /\ UNCHANGED <<iter, rng, charts, loops>>

C6_Seed ==
    /\ At(6, "seed")
    /\ rng' = Seeded(1)
    /\ Goto("data")
    /\ UNCHANGED <<ns, boundAt, iter, charts, loops>>

C6_Data ==
    /\ At(6, "data")
    /\ ns' = [ns EXCEPT !.data = <<>>]
    /\ Binds({"data"})
    /\ Goto("X")
    /\ UNCHANGED <<iter, rng, charts, loops>>

C6_X ==
    /\ At(6, "X")
    /\ ns' = [ns EXCEPT !.X = SampleMixture(rng, ns.N)]
    /\ rng' = AfterMixture(rng, ns.N)
    /\ Binds({"X"})
    /\ Goto("X_plot")
    /\ UNCHANGED <<iter, charts, loops>>

C6_XPlot ==
    /\ At(6, "X_plot")
    /\ ns' = [ns EXCEPT !.X_plot = NewAxis(Linspace(-5, 10, 1000))]
    /\ Binds({"X_plot"})
    /\ Goto("true_dens")
    /\ UNCHANGED <<iter, rng, charts, loops>>

C6_TrueDens ==
    /\ At(6, "true_dens")
    /\ ns' = [ns EXCEPT !.true_dens = Mixture(NormPdf(0, Col0(ns.X_plot)),
                                              NormPdf(5, Col0(ns.X_plot)))]
    /\ Binds({"true_dens"})
    /\ Goto("trace1")
    /\ UNCHANGED <<iter, rng, charts, loops>>

C6_Trace1 ==
    /\ At(6, "trace1")
    /\ ns' = [ns EXCEPT !.trace1 = Scatter(Col0(ns.X_plot), ns.true_dens, "lines", "tozeroy",
                                           "input distribution", TRUE, boundAt["X_plot"])]
    /\ Binds({"trace1"})
    /\ Goto("append1")
    /\ UNCHANGED <<iter, rng, charts, loops>>

C6_Append1 ==
    /\ At(6, "append1")
    /\ ns' = [ns EXCEPT !.data = Append(@, ns.trace1)]
    /\ Goto("for")
    /\ UNCHANGED <<boundAt, iter, rng, charts, loops>>

C6_For ==
    /\ At(6, "for")
    /\ iter' = DensityKernels
    /\ Goto("next")
    /\ UNCHANGED <<ns, boundAt, rng, charts, loops>>

C6_Next ==
    /\ At(6, "next")
    /\ IF iter = <<>>
       THEN Goto("trace3") /\ UNCHANGED <<ns, boundAt, iter, loops>>
       ELSE /\ ns' = [ns EXCEPT !.kernel = Head(iter)]
            /\ iter' = Tail(iter)
            /\ Binds({"kernel"})
            /\ loops' = [loops EXCEPT ![6] = @ + 1]
            /\ Goto("kde")
    /\ UNCHANGED <<rng, charts>>

C6_Kde ==
    /\ At(6, "kde")
    /\ ns' = [ns EXCEPT !.kde = KernelDensityFit(ns.kernel, "0.5", ns.X)]
    /\ Binds({"kde"})
    /\ Goto("log_dens")
    /\ UNCHANGED <<iter, rng, charts, loops>>

C6_LogDens ==
    /\ At(6, "log_dens")
    /\ ns' = [ns EXCEPT !.log_dens = ScoreSamples(ns.kde, ns.X_plot)]
    /\ Binds({"log_dens"})
    /\ Goto("trace2")
    /\ UNCHANGED <<iter, rng, charts, loops>>

C6_Trace2 ==
    /\ At(6, "trace2")
    /\ ns' = [ns EXCEPT !.trace2 = Scatter(Col0(ns.X_plot), Exp(ns.log_dens), "lines", "",
                                           KernelLegend(ns.kernel), TRUE, boundAt["X_plot"])]
    /\ Binds({"trace2"})
    /\ Goto("append2")
    /\ UNCHANGED <<iter, rng, charts, loops>>

C6_Append2 ==
    /\ At(6, "append2")
    /\ ns' = [ns EXCEPT !.data = Append(@, ns.trace2)]
    /\ Goto("next")
    /\ UNCHANGED <<boundAt, iter, rng, charts, loops>>

\* the jitter sized by the number of columns: X.shape[1]
JitterCountCols(X) == X.shape[2]

\* y = -0.005 - 0.01 * np.random.random(X.shape[0])
JitterCount(X) == X.shape[1]

C6_Trace3 ==
    /\ At(6, "trace3")
    /\ ns' = [ns EXCEPT !.trace3 =
                 Scatter(Col0(ns.X), Jitter(RandomRandom(rng, JitterCount(ns.X))),
                         "markers", "", "", FALSE, 0)]
    /\ rng' = AfterRandom(rng, JitterCount(ns.X))
    /\ Binds({"trace3"})
    /\ Goto("append3")
    /\ UNCHANGED <<iter, charts, loops>>

C6_Append3 ==
    /\ At(6, "append3")
    /\ ns' = [ns EXCEPT !.data = Append(@, ns.trace3)]
    /\ Goto("layout")
    /\ UNCHANGED <<boundAt, iter, rng, charts, loops>>

C6_Layout ==
    /\ At(6, "layout")
    /\ ns' = [ns EXCEPT !.layout =
                 [NoLayout EXCEPT !.annotations = <<[x |-> 6, y |-> "0.38", showarrow |-> FALSE,
                                                     text |-> AnnotationText(ns.N)]>>,
                                  !.zeroline = FALSE,
                                  !.hovermode = "closest"]]
    /\ Binds({"layout"})
    /\ Goto("fig")
    /\ UNCHANGED <<iter, rng, charts, loops>>

C6_Fig ==
    /\ At(6, "fig")
    /\ ns' = [ns EXCEPT !.fig = Figure(ns.data, ns.layout, Run)]
    /\ Binds({"fig"})
    /\ Finish
    /\ UNCHANGED <<iter, rng, charts, loops>>

\* ------------------------------------------------------- cell 8: publishing
PublishSteps == <<"import_display", "display1", "display2", "pip",
                  "import_publisher", "publish">>

PublishBinds(at) == CASE at = "import_display" -> {"display", "HTML"}
                      [] at = "import_publisher" -> {"publisher"}
                      [] OTHER -> {}

C8_Publish ==
    \E k \in 1..Len(PublishSteps) :
        /\ At(8, PublishSteps[k])
        /\ Binds(PublishBinds(PublishSteps[k]))
        /\ IF k = Len(PublishSteps) THEN Finish ELSE Goto(PublishSteps[k + 1])
        /\ UNCHANGED <<ns, iter, rng, charts, loops>>

\* ----------------------------------------------------------- specifications
Statement ==
    \/ C1_Import \/ C1_Version \/ C2_Import
    \/ C3_Seed \/ C3_N \/ C3_X \/ C3_XPlot \/ C3_Bins \/ C3_Fig \/ C3_Hist1 \/ C3_Hist2
    \/ C3_Kde \/ C3_Score \/ C3_Append \/ C3_For \/ C3_Next \/ C3_Y \/ C3_Update
    \/ C3_Layout \/ Iplot
    \/ C4_XPlot \/ C4_XSrc \/ C4_Fig \/ C4_Def \/ C4_For \/ C4_Next \/ C4_LogDens
    \/ C4_Trace \/ C4_Append \/ C4_Layout
    \/ C6_N \/ C6_Seed \/ C6_Data \/ C6_X \/ C6_XPlot \/ C6_TrueDens \/ C6_Trace1
    \/ C6_Append1 \/ C6_For \/ C6_Next \/ C6_Kde \/ C6_LogDens \/ C6_Trace2
    \/ C6_Append2 \/ C6_Trace3 \/ C6_Append3 \/ C6_Layout \/ C6_Fig
    \/ C8_Publish

\* an interactive session: any cell, in any order, MaxRuns executions
Next == RunCell \/ Raise \/ Statement

Spec == Init /\ [][Next]_vars

\* Run All on a fresh kernel: the cells top to bottom
NextOrder == RunNextCell \/ Statement

SpecOrder == Init /\ [][NextOrder]_vars

\* the kernel never stops in the middle of a run
FairOrder == SpecOrder /\ WF_vars(NextOrder)

\* ------------------------------------------------------------------ claims
\* the figures py.iplot has rendered
Rendered == {charts[k].fig : k \in DOMAIN charts}

\* the cell whose run built the figure
BuiltBy(f) == IF f.builtRun = 0 THEN 0 ELSE log[f.builtRun].cell

\* the figures that are finished: rendered, or left in fig by a completed cell
Finished ==
    Rendered \cup (IF boundAt["fig"] > 0 /\ log[boundAt["fig"]].status = "ok"
                   THEN {ns.fig} ELSE {})

\* the index k of the grid cell whose axes (xk, yk) the trace is drawn on
CellOf(f, t) == CHOOSE k \in 1..(f.rows * f.cols) : t.xaxis = "x" \o DecStr(k)

\* the kernel of the estimator whose density the trace draws
KernelOf(t) == t.y.src.of.src.kde.kernel

NoDuplicates(q) == \A a, b \in DOMAIN q : q[a] = q[b] => a = b

\* C1: the available-kernels figure is a 2 x 3 grid of exactly six subplots
\* whose titles, row-major, are the six kernel names, none repeated or missing
C1_GalleryGrid ==
    \A f \in Finished : BuiltBy(f) = 4 =>
        /\ f.rows = 2 /\ f.cols = 3
        /\ Cardinality(DOMAIN f.yaxis) = 6
        /\ f.titles = <<"gaussian", "tophat", "epanechnikov",
                        "exponential", "linear", "cosine">>
        /\ NoDuplicates(f.titles)

C1_Witness == \E k \in DOMAIN charts : BuiltBy(charts[k].fig) = 4

\* C2: right after a sampling cell assigns X, X has N rows: the components
\* have int(0.3 * N) and int(0.7 * N) points, 6 + 14 for N = 20 and 30 + 70
\* for N = 100
C2_SampleLength ==
    \A c \in {3, 6} : pc = [cell |-> c, at |-> "X_plot"] =>
        LET parts == ns.X.src.of.src
        IN  /\ ns.N = (IF c = 3 THEN 20 ELSE 100)
            /\ parts.a.shape = <<IF c = 3 THEN 6 ELSE 30>>
            /\ parts.b.shape = <<IF c = 3 THEN 14 ELSE 70>>
            /\ ns.X.shape = <<ns.N, 1>>

C2_Witness == pc = [cell |-> 6, at |-> "X_plot"] /\ ns.X.shape = <<100, 1>>

\* C4: the third figure has exactly one annotation, "N=100 points", and the
\* N in the text is the number of sample points of that figure
C4_Annotation ==
    \A f \in Finished : BuiltBy(f) = 6 =>
        /\ Len(f.layout.annotations) = 1
        /\ f.layout.annotations[1].text = "N=100 points"
        /\ f.data[5].x.shape = <<100>>

C4_Witness == \E k \in DOMAIN charts : BuiltBy(charts[k].fig) = 6

\* the notebook has been run top to bottom
RunAllDone == pc = Idle /\ Run = 8

\* C5: run top to bottom, the notebook terminates, every cell ends normally
\* in document order, py.iplot is called exactly three times (histograms,
\* kernels, density) and the loops make 2, 6 and 3 iterations
C5_ThreeCharts ==
    /\ <>RunAllDone
    /\ [](Len(charts) <= 3)
    /\ [](RunAllDone =>
            /\ \A k \in 1..8 : log[k] = [cell |-> k, status |-> "ok"]
            /\ Len(charts) = 3
            /\ <<BuiltBy(charts[1].fig), BuiltBy(charts[2].fig), BuiltBy(charts[3].fig)>>
                   = <<3, 4, 6>>
            /\ <<charts[1].run, charts[2].run, charts[3].run>> = <<3, 5, 7>>
            /\ loops = (3 :> 2 @@ 4 :> 6 @@ 6 :> 3))

C5_Witness == RunAllDone /\ Len(charts) = 3

\* the subplot title that names a trace of the first figure
TitleFor1(t) ==
    IF t.type = "histogram"
    THEN (IF t.nbinsy = 10 THEN "Histogram" ELSE "Histogram, bins shifted")
    ELSE (IF KernelOf(t) = "tophat" THEN "Tophat Kernel Density"
          ELSE "Gaussian Kernel Density")

\* C6: the first figure is a 2 x 2 grid with the four titles in row-major
\* order; the two histograms of the same sample are on (1,1) and (1,2), the
\* tophat curve on (2,1), the Gaussian curve on (2,2), one trace per cell,
\* each on the cell whose title names it
C6_FirstFigure ==
    \A f \in Rendered : BuiltBy(f) = 3 =>
        /\ f.rows = 2 /\ f.cols = 2
        /\ f.titles = <<"Histogram", "Histogram, bins shifted",
                        "Tophat Kernel Density", "Gaussian Kernel Density">>
        /\ Len(f.data) = 4
        /\ f.data[1].type = "histogram" /\ f.data[2].type = "histogram"
        /\ f.data[1].x = f.data[2].x
        /\ f.data[1].nbinsy = 10 /\ f.data[2].nbinsy = 30
        /\ f.data[3].type = "scatter" /\ KernelOf(f.data[3]) = "tophat"
        /\ f.data[4].type = "scatter" /\ KernelOf(f.data[4]) = "gaussian"
        /\ [k \in 1..4 |-> f.data[k].xaxis] = <<"x1", "x2", "x3", "x4">>
        /\ [k \in 1..4 |-> f.data[k].yaxis] = <<"y1", "y2", "y3", "y4">>
        /\ \A k \in 1..4 : f.titles[CellOf(f, f.data[k])] = TitleFor1(f.data[k])

C6_Witness == \E k \in DOMAIN charts : BuiltBy(charts[k].fig) = 3

\* C7: in every figure, each Scatter trace has x and y of the same length:
\* 1000 for a density curve, N = 100 for the sample markers
C7_ShapesAgree ==
    \A f \in Finished : \A k \in DOMAIN f.data :
        f.data[k].type = "scatter" =>
            /\ f.data[k].x.shape = f.data[k].y.shape
            /\ f.data[k].x.shape =
                   (IF f.data[k].mode = "markers" THEN <<100>> ELSE <<1000>>)

C7_Witness ==
    \E k \in DOMAIN charts :
        /\ BuiltBy(charts[k].fig) = 6
        /\ charts[k].fig.data[5].mode = "markers"

\* C8: in the gallery loop the trace of kernel i (0..5) goes to row i/3+1,
\* column i%3+1, always inside the 2 x 3 grid; in the finished figure each
\* cell holds exactly one trace, that of the kernel its title names
C8_GalleryPlacement ==
    /\ (pc = [cell |-> 4, at |-> "append"] /\ Uses(4, "append") \subseteq Bound) =>
          /\ ns.i \in 0..5
          /\ GalleryRow(ns.i) \in 1..2 /\ GalleryCol(ns.i) \in 1..3
          /\ InGrid(ns.fig, GalleryRow(ns.i), GalleryCol(ns.i))
    /\ (pc = [cell |-> 4, at |-> "next"]) =>
          \A k \in DOMAIN ns.fig.data :
              ns.fig.data[k].xaxis = "x" \o DecStr(3 * ((k - 1) \div 3) + ((k - 1) % 3) + 1)
    /\ \A f \in Finished : BuiltBy(f) = 4 =>
          /\ Len(f.data) = 6
          /\ \A c \in 1..6 : Cardinality({k \in 1..6 : CellOf(f, f.data[k]) = c}) = 1
          /\ \A k \in 1..6 : f.titles[CellOf(f, f.data[k])] = KernelOf(f.data[k])

C8_Witness ==
    \E k \in DOMAIN charts :
        BuiltBy(charts[k].fig) = 4 /\ Len(charts[k].fig.data) = 6

\* C9: in the first figure 'Normalized Density' titles exactly yaxis1 and
\* yaxis3, the y-axes of the left-column cells (1,1) and (2,1); yaxis2 and
\* yaxis4 stay untitled
C9_LeftColumnTitles ==
    \A f \in Rendered : BuiltBy(f) = 3 =>
        /\ {a \in DOMAIN f.yaxis : f.yaxis[a] = "Normalized Density"} = {"yaxis1", "yaxis3"}
        /\ {a \in DOMAIN f.yaxis : f.yaxis[a] = ""} = {"yaxis2", "yaxis4"}
        /\ {"yaxis" \o DecStr(GridRef(f, r, 1)) : r \in 1..2} = {"yaxis1", "yaxis3"}

C9_Witness ==
    \E k \in DOMAIN charts :
        BuiltBy(charts[k].fig) = 3 /\ charts[k].fig.yaxis["yaxis3"] = "Normalized Density"

\* a figure without the execution counts recorded in it
Strip(f) ==
    [f EXCEPT !.builtRun = 0,
              !.data = [k \in DOMAIN f.data |-> [f.data[k] EXCEPT !.gridRun = 0]]]

\* the executions up to r of a figure-building cell that did not raise
Builds(r) == {k \in 1..r : log[k].cell \in {3, 4, 6} /\ log[k].status # "error"}

\* the two normal draws concatenated into the sample a trace plots as x = X[:, 0]
SampleOf(t) == t.x.src.of.src.of.src

\* C10: every rendered chart is the figure of the latest figure-building
\* cell run that did not raise, each curve in it uses the X_plot bound in
\* that same run, its sample was drawn right after the seed was set to 1, and
\* two charts built by the same cell show the same data whatever ran before
C10_NoStaleValues ==
    /\ \A k \in DOMAIN charts :
          /\ Builds(charts[k].run) # {}
          /\ \A b \in Builds(charts[k].run) : b <= charts[k].fig.builtRun
          /\ \A t \in DOMAIN charts[k].fig.data :
                charts[k].fig.data[t].gridRun \in {0, charts[k].fig.builtRun}
    /\ \A k \in DOMAIN charts :
          BuiltBy(charts[k].fig) \in {3, 6} =>
              LET t == charts[k].fig.data[IF BuiltBy(charts[k].fig) = 3 THEN 1 ELSE 5]
              IN  SampleOf(t).a.src.rng = [seed |-> 1, calls |-> <<>>]
    /\ \A j, k \in DOMAIN charts :
          BuiltBy(charts[j].fig) = BuiltBy(charts[k].fig) =>
              Strip(charts[j].fig) = Strip(charts[k].fig)

C10_Witness ==
    \E j, k \in DOMAIN charts :
        /\ charts[j].fig.builtRun < charts[k].fig.builtRun
        /\ BuiltBy(charts[j].fig) = BuiltBy(charts[k].fig)
        /\ \E r \in 1..Len(log) : log[r].cell = 2 /\ r < charts[j].run

====
